---- MODULE Spec2Model ----
(***************************************************************************)
(* Model of the city-map component of the weather application:             *)
(*   src/client/src/components/WeatherMap.tsx, second component (l.148 ff) *)
(*                                                                         *)
(* Two parts:                                                              *)
(*   - the district generator (hashString, seededRandom,                   *)
(*     generateCityDistricts), run statement by statement on `gen`;        *)
(*   - the React component WeatherMap (state hooks, the four effects, the  *)
(*     button handlers and the frame loop).                                *)
(*                                                                         *)
(* Arithmetic.  JavaScript numbers are doubles.  World coordinates, sizes  *)
(* and random draws are kept in thousandths (fixed point, Milli = 1000),   *)
(* angles in whole degrees, zoom in quarters (the code only ever adds or   *)
(* subtracts 0.25, which is exact in binary).  The seed counter keeps the  *)
(* 53-bit integer precision of a double.                                   *)
(***************************************************************************)
EXTENDS Integers, Sequences, FiniteSets, TLC

VARIABLES
    (* LocationSearch: state hooks (l.22-24), the debounce timer and the
       requests sent *)
    query,
    suggestions,
    isLoading,
    debounced,  \* <<>> or <<the argument of the pending debouncedSearch call>>
    pending,    \* the queries of the fetch calls that have not settled yet
    (* hashString *)
    hashCall,   \* activation record of the hashString call
    (* generator *)
    gen,        \* activation record of the generateCityDistricts call
    call,       \* arguments of the call in progress / last call
    prev,       \* <<>> or <<an earlier completed call and its result>>
    (* component: props and state hooks (l.158-166) *)
    mounted,            \* the component is in the tree
    weather,            \* the weather prop
    zoom,               \* in quarters: 4 is zoom 1
    districts,
    selectedDistrict,   \* index from 0, or Null
    isDragging,
    mapOffset,
    dragStart,
    mouse,
    cursor,             \* canvas.style.cursor
    (* component: the frame callbacks queued with requestAnimationFrame *)
    animPending,        \* the callback whose id is animId (l.279) is queued
    loopPending,        \* a callback queued by drawMap itself (l.276), of the
                        \* running draw effect, is queued
    staleLoops,         \* callbacks queued by drawMap of draw effects that
                        \* have been cleaned up (counted up to MaxStale)
    staleList,          \* the district list in the closure of the oldest of
                        \* them, << >> when there is none
    lastFrame,          \* who ran drawMap last: "none", "live", "stale"
    (* component: event listeners attached to the canvas and the window *)
    listeners,          \* how many of each are attached
    (* observation *)
    down                \* <<>> or <<pointer position and pan at the mousedown
                        \* of the drag in progress>>

genVars == <<gen, call, prev>>

hookVars == <<mounted, weather, zoom, districts, selectedDistrict, isDragging,
              mapOffset, dragStart, mouse, cursor>>

frameVars == <<animPending, loopPending, staleLoops, staleList, lastFrame>>

compVars == <<hookVars, frameVars, listeners, down>>

searchVars == <<query, suggestions, isLoading, debounced, pending>>

vars == <<hashCall, genVars, compVars, searchVars>>

----------------------------------------------------------------------------
(* Fixed point and trigonometry *)

Milli == 10 * 100

Max(a, b) == IF a >= b THEN a ELSE b
Min(a, b) == IF a <= b THEN a ELSE b

\* a * b for two milli values, truncated towards zero
MulMilli(a, b) ==
    IF a * b >= 0 THEN (a * b) \div Milli ELSE -((-(a * b)) \div Milli)

\* Math.floor of a non-negative milli value
Floor(m) == m \div Milli

\* 1000 * sin(d degrees), d = 0..90
SinQuarter ==
    << 0, 17, 35, 52, 70, 87, 105, 122, 139, 156, 174, 191, 208, 225, 242,
       259, 276, 292, 309, 326, 342, 358, 375, 391, 407, 423, 438, 454, 469,
       485, 500, 515, 530, 545, 559, 574, 588, 602, 616, 629, 643, 656, 669,
       682, 695, 707, 719, 731, 743, 755, 766, 777, 788, 799, 809, 819, 829,
       839, 848, 857, 866, 875, 883, 891, 899, 906, 914, 921, 927, 934, 940,
       946, 951, 956, 961, 966, 970, 974, 978, 982, 985, 988, 990, 993, 995,
       996, 998, 999, 999, 1000, 1000 >>

\* Math.sin, argument in degrees, result in milli
Sin(deg) ==
    LET d == deg % 360 IN
    IF d <= 90 THEN SinQuarter[d + 1]
    ELSE IF d <= 180 THEN SinQuarter[180 - d + 1]
    ELSE IF d <= 270 THEN -SinQuarter[d - 180 + 1]
    ELSE -SinQuarter[360 - d + 1]

\* Math.cos, argument in degrees, result in milli
Cos(deg) == Sin(deg + 90)

----------------------------------------------------------------------------
(* Integer-valued doubles: value = hi * 2^26 + lo *)

Limb == 2 ^ 26

ToNum(i) == [hi |-> i \div Limb, lo |-> i % Limb]

\* 2^53: the first integer n for which the double n + 1 rounds back to n
TwoPow53 == [hi |-> 2 ^ 27, lo |-> 0]

\* seed++ on a double (l.408)
F64Inc(n) ==
    IF n.hi >= TwoPow53.hi THEN n
    ELSE IF n.lo = Limb - 1 THEN [hi |-> n.hi + 1, lo |-> 0]
    ELSE [hi |-> n.hi, lo |-> n.lo + 1]

----------------------------------------------------------------------------
(* hashString (l.397-404) *)

Half == 2 ^ 16

\* variant: the shifted value is added to, not reduced by, the old hash
HashStepAdded(hash, code) ==
    LET u  == IF hash < 0 THEN [hi |-> (hash \div Half) + Half, lo |-> hash % Half]
                          ELSE [hi |-> hash \div Half, lo |-> hash % Half]
        l  == 33 * u.lo + code
        h  == (33 * u.hi + (l \div Half)) % Half
        lo == l % Half
    IN  IF h >= Half \div 2 THEN (h - Half) * Half + lo ELSE h * Half + lo

\* one step: hash = ((hash << 5) - hash) + code; hash = hash & hash
\* computed on the two 16-bit halves of the 32-bit pattern
HashStep(hash, code) ==
    LET u  == IF hash < 0 THEN [hi |-> (hash \div Half) + Half, lo |-> hash % Half]
                          ELSE [hi |-> hash \div Half, lo |-> hash % Half]
        l  == 31 * u.lo + code
        h  == (31 * u.hi + (l \div Half)) % Half
        lo == l % Half
    IN  IF h >= Half \div 2 THEN (h - Half) * Half + lo ELSE h * Half + lo

RECURSIVE HashFrom(_, _, _)
HashFrom(hash, str, i) ==
    IF i > Len(str) THEN hash
    ELSE HashFrom(HashStep(hash, str[i]), str, i + 1)

\* str is the sequence of the string's char codes
hashString(str) == HashFrom(0, str, 1)

\* the function run statement by statement on `hashCall`
HashIdle == [pc |-> "idle", str |-> << >>, i |-> 0, hash |-> 0]

\* l.398-399: let hash = 0, let i = 0 and the first test of the for loop
HashEntry(str) ==
    [pc |-> IF 0 < Len(str) THEN "loop" ELSE "done",
     str |-> str, i |-> 0, hash |-> 0]

\* l.399-402: the loop body, i++ and the next test of the for loop
HashBody(h) ==
    [h EXCEPT !.hash = HashStep(@, h.str[h.i + 1]),
              !.i = @ + 1,
              !.pc = IF h.i + 1 < Len(h.str) THEN "loop" ELSE "done"]

----------------------------------------------------------------------------
(* seededRandom (l.407-411) *)

\* floor(1000 * frac(Math.sin(n) * 10000)) for the counters the model reaches
RandTable == {
    \* "Chicago": seed -1884315574
    [hi |-> -29, lo |-> 61841482, vals |-> <<
      441, 508, 262, 271, 366, 629, 111, 906, 548, 293, 328, 976, 819, 745,
      575, 607, 900, 231, 431, 484, 97, 522, 10, 946, 84, 565, 123, 641, 500,
      309, 525, 875, 873, 424, 993, 720, 955, 870, 695, 657, 448, 291, 493,
      694, 276, 836, 6, 752, 116, 720, 842, 792, 706, 889, 546, 912, 368, 266,
      746, 369, 172, 236, 52, 562, 135, 614, 705, 144, 460, 767, 910, 287,
      866, 792, 749, 404, 408, 16, 101, 299, 317, 664, 491, 88, 71, 958, 17,
      545, 37, 107, 520, 880, 796, 329, 364, 933, 108, 249, 267, 786, 589,
      575, 854, 33, 320, 367, 174, 137, 47, 831 >>],
    \* "Rome": seed 2553013
    [hi |-> 0, lo |-> 2553013, vals |-> <<
      62, 169, 266, 145, 442, 142, 129, 561, 511, 494, 315, 685, 375, 422,
      246, 596, 702, 274, 48, 963, 194, 885, 601, 226, 321, 161, 981, 137,
      277, 482, 968, 853, 132, 563, 926, 425, 140, 137, 609, 507, 434, 868,
      849, 186, 339, 124, 293, 3, 822, 276, 756, 255, 957, 453, 641, 690, 12,
      483, 48, 993, 355, 63, 106, 971, 808, 828, 112, 781, 896, 364, 145, 611,
      763, 222, 716, 589, 364, 546, 799, 847, 189, 15, 404, 6, 320, 513, 834,
      76, 49, 54, 101, 730, 116, 206, 168, 82, 3, 8, 850, 731, 643, 583, 139,
      826, 108, 284, 289, 681, 218, 90 >>],
    \* "Lima": seed 2368497
    [hi |-> 0, lo |-> 2368497, vals |-> <<
      702, 273, 826, 30, 581, 494, 934, 857, 231, 542, 102, 993, 408, 573,
      770, 872, 789, 529, 918, 935, 34, 420, 845, 720, 992, 3, 729, 240, 211,
      632, 912, 412, 314, 305, 174, 551, 413, 476, 964, 626, 189, 107, 891,
      796, 573, 608, 490, 884, 573, 764, 829, 337, 173, 339, 722, 178, 634,
      964, 622, 691, 538, 978, 268, 699, 454, 349, 46, 741, 721, 298, 506,
      490, 949, 235, 508, 195, 782, 555, 170, 884, 121, 619, 695, 653, 711,
      649, 929, 137, 286, 224, 375, 453, 36, 991, 446, 642, 41, 990, 177, 493,
      404, 896, 352, 596, 340, 478, 864, 837, 952, 746 >>],
    \* 2^53: Math.sin(9007199254740992) = -0.848925964814655
    [hi |-> 2 ^ 27, lo |-> 0, vals |-> << 740 >>] }

RandAt(n) ==
    LET s == CHOOSE t \in RandTable :
                 t.hi = n.hi /\ n.lo >= t.lo /\ n.lo < t.lo + Len(t.vals)
    IN  s.vals[n.lo - s.lo + 1]

\* one draw: the value min + rand * (max - min) in milli (min, max in milli)
\* and the advanced counter
seededRandom(seed, min, max) ==
    [value |-> min + (RandAt(seed) * (max - min)) \div Milli,
     seed  |-> F64Inc(seed)]

----------------------------------------------------------------------------
(* generateCityDistricts (l.406-483) *)

districtTypes == <<
    [type |-> "residential",   names |-> <<"Heights", "Garden", "Village", "Homes", "Quarter">>],
    [type |-> "commercial",    names |-> <<"Downtown", "Square", "Center", "Plaza", "Market">>],
    [type |-> "industrial",    names |-> <<"Works", "Factory", "Mill", "Yard", "Harbor">>],
    [type |-> "entertainment", names |-> <<"Park", "Theater", "Stadium", "Gardens", "Festival">>],
    [type |-> "educational",   names |-> <<"Campus", "Academy", "Institute", "College", "Library">>] >>

directions ==
    <<"North", "East", "South", "West", "Upper", "Lower", "Central", "Old", "New">>

\* type.charAt(0).toUpperCase() + type.slice(1)
Capitalize(type) ==
    CASE type = "residential"   -> "Residential"
      [] type = "commercial"    -> "Commercial"
      [] type = "industrial"    -> "Industrial"
      [] type = "entertainment" -> "Entertainment"
      [] type = "educational"   -> "Educational"

\* squared world distance of two points, in milli^2
Dist2(x1, y1, x2, y2) == (x1 - x2) * (x1 - x2) + (y1 - y2) * (y1 - y2)

\* ghost: the do/while iterations of the district being placed are counted
\* up to this value (the source keeps no such counter)
MaxAttempts == 201

GenIdle ==
    [pc |-> "idle", seed |-> ToNum(0), nearbyLocations |-> <<>>,
     numDistricts |-> 0, districts |-> <<>>, index |-> 0,
     typeIndex |-> 0, direction |-> 0, nameIndex |-> 0,
     x |-> 0, y |-> 0, overlapping |-> FALSE, attempts |-> 0]

\* the test of the while loop (l.446), or the return (l.482)
WhileTest(g) ==
    [g EXCEPT !.pc = IF Len(g.districts) < g.numDistricts THEN "pick" ELSE "done"]

\* the range numDistricts is drawn from (l.423)
minDistrictCount == 5
maxDistrictCount == 10

\* variant: the lower end of the range is 3
GenEntryLow(seed, nearbyLocations) ==
    LET r == seededRandom(seed, 3 * Milli, maxDistrictCount * Milli)
        g == [GenIdle EXCEPT !.seed = r.seed,
                             !.nearbyLocations = nearbyLocations,
                             !.numDistricts = Floor(r.value)]
    IN  IF Len(nearbyLocations) > 0 THEN [g EXCEPT !.pc = "anchors"]
        ELSE WhileTest(g)

\* l.423-426: numDistricts, then the forEach over the anchors if there are any
GenEntry(seed, nearbyLocations) ==
    LET r == seededRandom(seed, minDistrictCount * Milli, maxDistrictCount * Milli)
        g == [GenIdle EXCEPT !.seed = r.seed,
                             !.nearbyLocations = nearbyLocations,
                             !.numDistricts = Floor(r.value)]
    IN  IF Len(nearbyLocations) > 0 THEN [g EXCEPT !.pc = "anchors"]
        ELSE WhileTest(g)

\* variant: the sine gives x and the cosine gives y
AnchorDistrictSwapped(g) ==
    LET n        == Len(g.nearbyLocations)
        location == g.nearbyLocations[g.index + 1]
        angle    == (g.index * 360) \div n
        distance == (location.distance * Milli) \div 20
        t        == seededRandom(g.seed, 0, Len(districtTypes) * Milli)
        s        == seededRandom(t.seed, 1500, 3000)
    IN  [name    |-> location.name,
         type    |-> districtTypes[Floor(t.value) + 1].type,
         size    |-> s.value,
         x       |-> MulMilli(Sin(angle), distance),
         y       |-> MulMilli(Cos(angle), distance),
         weather |-> << [temp |-> location.temp,
                         condition |-> location.condition] >>,
         info    |-> ToString(location.distance) \o " miles - "
                     \o ToString(location.temp) \o "°"]

\* the anchor district of the current forEach iteration (l.431-442)
AnchorDistrict(g) ==
    LET n        == Len(g.nearbyLocations)
        location == g.nearbyLocations[g.index + 1]
        angle    == (g.index * 360) \div n
        distance == (location.distance * Milli) \div 20
        t        == seededRandom(g.seed, 0, Len(districtTypes) * Milli)
        s        == seededRandom(t.seed, 1500, 3000)
    IN  [name    |-> location.name,
         type    |-> districtTypes[Floor(t.value) + 1].type,
         size    |-> s.value,
         x       |-> MulMilli(Cos(angle), distance),
         y       |-> MulMilli(Sin(angle), distance),
         weather |-> << [temp |-> location.temp,
                         condition |-> location.condition] >>,
         info    |-> ToString(location.distance) \o " miles - "
                     \o ToString(location.temp) \o "°"]

\* variant: the anchor is put in front of the list (unshift for push)
AnchorStepUnshift(g) ==
    LET n == Len(g.nearbyLocations)
        h == [g EXCEPT !.seed = F64Inc(F64Inc(@)),
                       !.districts = <<AnchorDistrict(g)>> \o @,
                       !.index = @ + 1]
    IN  IF h.index < n THEN h ELSE WhileTest(h)

\* l.427-443: one iteration of nearbyLocations.forEach
AnchorStep(g) ==
    LET n == Len(g.nearbyLocations)
        h == [g EXCEPT !.seed = F64Inc(F64Inc(@)),
                       !.districts = Append(@, AnchorDistrict(g)),
                       !.index = @ + 1]
    IN  IF h.index < n THEN h ELSE WhileTest(h)

\* l.447-451: type, direction and name of the next synthetic district
PickStep(g) ==
    LET t == seededRandom(g.seed, 0, Len(districtTypes) * Milli)
        d == seededRandom(t.seed, 0, Len(directions) * Milli)
        n == seededRandom(d.seed, 0,
                          Len(districtTypes[Floor(t.value) + 1].names) * Milli)
    IN  [g EXCEPT !.seed = n.seed,
                  !.typeIndex = Floor(t.value),
                  !.direction = Floor(d.value),
                  !.nameIndex = Floor(n.value),
                  !.attempts = 0,
                  !.pc = "place"]

\* l.461-469: is the candidate closer than 1 to a district already placed
Overlapping(placed, x, y) ==
    \E k \in 1..Len(placed) :
        Dist2(placed[k].x, placed[k].y, x, y) < Milli * Milli

\* variant: the candidate is accepted without the test against the
\* districts already placed
CandidateStepUntested(g) ==
    LET a  == seededRandom(g.seed, 0, 360 * Milli)
        d  == seededRandom(a.seed, 1 * Milli, 5 * Milli)
        x  == MulMilli(Cos(Floor(a.value)), d.value)
        y  == MulMilli(Sin(Floor(a.value)), d.value)
    IN  [g EXCEPT !.seed = d.seed,
                  !.x = x, !.y = y, !.overlapping = FALSE,
                  !.attempts = IF @ < MaxAttempts THEN @ + 1 ELSE @,
                  !.pc = "push"]

\* l.454-470: one iteration of the do/while placement loop
CandidateStep(g) ==
    LET a  == seededRandom(g.seed, 0, 360 * Milli)
        d  == seededRandom(a.seed, 1 * Milli, 5 * Milli)
        x  == MulMilli(Cos(Floor(a.value)), d.value)
        y  == MulMilli(Sin(Floor(a.value)), d.value)
        ov == Overlapping(g.districts, x, y)
    IN  [g EXCEPT !.seed = d.seed,
                  !.x = x, !.y = y, !.overlapping = ov,
                  !.attempts = IF @ < MaxAttempts THEN @ + 1 ELSE @,
                  !.pc = IF ov THEN "place" ELSE "push"]

\* l.472-479: push the synthetic district
PushStep(g) ==
    LET districtType == districtTypes[g.typeIndex + 1]
        s        == seededRandom(g.seed, 1500, 3000)
        district == [name    |-> directions[g.direction + 1] \o " "
                                 \o districtType.names[g.nameIndex + 1],
                     type    |-> districtType.type,
                     size    |-> s.value,
                     x       |-> g.x,
                     y       |-> g.y,
                     weather |-> << >>,
                     info    |-> Capitalize(districtType.type)]
    IN  WhileTest([g EXCEPT !.seed = s.seed, !.districts = Append(@, district)])

GenStep(g) ==
    CASE g.pc = "anchors" -> AnchorStep(g)
      [] g.pc = "pick"    -> PickStep(g)
      [] g.pc = "place"   -> CandidateStep(g)
      [] g.pc = "push"    -> PushStep(g)

RECURSIVE GenRun(_)
GenRun(g) == IF g.pc = "done" THEN g.districts ELSE GenRun(GenStep(g))

\* the whole call, for the component
generateCityDistricts(seed, nearbyLocations) ==
    GenRun(GenEntry(seed, nearbyLocations))

----------------------------------------------------------------------------
(* Inputs of the generator *)

\* char codes of the location names
Chicago == <<67, 104, 105, 99, 97, 103, 111>>
Rome    == <<82, 111, 109, 101>>
Lima    == <<76, 105, 109, 97>>

LocationNames == {Chicago, Rome, Lima}

\* the seeds the component can pass: hashString of a location name
HashSeeds == {ToNum(hashString(s)) : s \in LocationNames}

\* every seed the function is given as a JavaScript number in the model
NumberSeeds == HashSeeds \cup {TwoPow53}

\* longest anchor list
MaxAnchors == 11

NearbyNames == <<"Oak Park", "Evanston", "Cicero", "Skokie">>

\* the i-th nearby record of a payload: `spread` follows the distances the
\* server draws (5..20 miles), `close` puts every anchor 5 miles out
NearbyRecord(kind, i) ==
    LET k == ((i - 1) % 4) + 1 IN
    [name      |-> NearbyNames[k],
     distance  |-> IF kind = "close" THEN 5 ELSE <<10, 12, 5, 20>>[k],
     temp      |-> <<70, 68, 72, 65>>[k],
     condition |-> <<"clear", "cloudy", "rainy", "snowy">>[k]]

NearbyList(kind, n) == [i \in 1..n |-> NearbyRecord(kind, i)]

NearbyLists == {NearbyList(kind, n) : kind \in {"spread", "close"}, n \in 0..MaxAnchors}

----------------------------------------------------------------------------
(* The component LocationSearch (src/client/src/components/LocationSearch.tsx) *)

\* char codes of the texts typed: nothing, a blank, "B", "Bo", and the name
\* the suggestions of the model carry
Blank  == <<32>>
TypedB == <<66>>
TypedBo == <<66, 111>>
Boston == <<66, 111, 115, 116, 111, 110>>

\* the texts typed into the input
Typed == {<< >>, Blank, TypedB, TypedBo}

\* every value the query takes: a typed text or the name of a suggestion
Queries == Typed \cup {Boston}

\* l.27: !searchQuery.trim(), the text is empty or white space only
Trimmed(q) == SelectSeq(q, LAMBDA c : c # 32)
IsBlank(q) == Len(Trimmed(q)) = 0

\* l.43-71: the processed results of the response to query q; `answers` is
\* a ghost field, the query of the request the list answers
Results(q) == << [display_name |-> Boston, answers |-> q] >>

\* the state before anything is typed (l.22-24)
SearchIdle ==
    /\ query = << >>
    /\ suggestions = << >>
    /\ isLoading = FALSE
    /\ debounced = << >>
    /\ pending = {}

----------------------------------------------------------------------------
(* The component WeatherMap (l.158-394) *)

Null == -1

Origin == [x |-> 0, y |-> 0]

\* zoom bounds, default and step of the buttons, in quarters (l.160, 345, 352)
ZoomMin == 2
ZoomMax == 12
ZoomDefault == 4
ZoomStep == 1

\* pixels per world unit at zoom 1 (l.243) and per unit of size (l.312)
UnitScale == 50
SizeScale == 20

\* sub-pixels per pixel: screen coordinates are compared in 1/4000 pixel, in
\* which x * 50 * zoom and size * 20 * zoom are whole numbers
SubPx == 4 * Milli

\* the canvas: its client rectangle (getBoundingClientRect) and its size
CanvasLeft == 2 * 10
CanvasTop == 6 * 10
CanvasWidth == 4 * 100
CanvasHeight == 3 * 100

\* the payloads the parent passes: location name and nearby list
Payloads ==
    { [location |-> Lima,    nearby |-> NearbyList("spread", 4)],
      [location |-> Rome,    nearby |-> << >>],
      [location |-> << >>,   nearby |-> << >>] }

\* two payloads for the same place, as two responses of the server give
\* them: the nearby list is drawn anew for every response
NearbyPayloads ==
    { [location |-> Lima,    nearby |-> NearbyList("spread", 4)],
      [location |-> Lima,    nearby |-> NearbyList("close", 4)] }

AllPayloads == Payloads \cup NearbyPayloads

\* pointer positions (clientX, clientY): the canvas centre, the centre of the
\* last district of the Lima list in the default view, a point to the right of
\* the canvas
PointerCentre == [x |-> CanvasLeft + 200, y |-> CanvasTop + 150]
PointerEast   == [x |-> CanvasLeft + 371, y |-> CanvasTop + 111]
PointerOutside == [x |-> CanvasLeft + 542, y |-> CanvasTop + 72]

Pointers == {PointerCentre, PointerEast, PointerOutside}

\* the pointer is over the canvas element
OnCanvas(p) ==
    /\ p.x >= CanvasLeft /\ p.x < CanvasLeft + CanvasWidth
    /\ p.y >= CanvasTop  /\ p.y < CanvasTop + CanvasHeight

\* largest pan component the model follows
MaxPan == 175

InPanRange(o) ==
    /\ o.x >= -MaxPan /\ o.x <= MaxPan
    /\ o.y >= -MaxPan /\ o.y <= MaxPan

\* l.169-175: the list the generation effect builds for a payload, or the
\* list kept when the payload has no location name
Generated ==
    [w \in AllPayloads |->
        IF Len(w.location) > 0
        THEN generateCityDistricts(ToNum(hashString(w.location)), w.nearby)
        ELSE << >>]

DistrictsFor(w, old) == IF Len(w.location) > 0 THEN Generated[w] ELSE old

\* l.304-311 (and l.235-244): screen position of a district, in sub-pixels
DistrictX(d, z, offset) ==
    (CanvasWidth * SubPx) \div 2 + offset.x * SubPx + d.x * UnitScale * z
DistrictY(d, z, offset) ==
    (CanvasHeight * SubPx) \div 2 + offset.y * SubPx + d.y * UnitScale * z

\* l.235-236: centerX and centerY of drawMap, in sub-pixels
CenterX(offset) == (CanvasWidth * SubPx) \div 2 + offset.x * SubPx
CenterY(offset) == (CanvasHeight * SubPx) \div 2 + offset.y * SubPx

\* l.243-244: where drawMap draws a district
DrawnX(d, z, offset) == CenterX(offset) + d.x * UnitScale * z
DrawnY(d, z, offset) == CenterY(offset) + d.y * UnitScale * z

\* variant: the road end ignores the pan
RoadXUnpanned(d, z, offset) == (CanvasWidth * SubPx) \div 2 + d.x * UnitScale * z

\* l.268 and l.752-753 (also l.771-774): where drawRoads ends the road of a
\* district; drawMap passes its centerX and centerY
RoadX(d, z, offset) == CenterX(offset) + d.x * UnitScale * z
RoadY(d, z, offset) == CenterY(offset) + d.y * UnitScale * z

\* l.312-319: the position (mx, my), relative to the canvas and in
\* sub-pixels, lies in the square of district d
InSquareAt(d, z, offset, mx, my) ==
    LET half == (d.size * SizeScale * z) \div 2
    IN  /\ mx >= DistrictX(d, z, offset) - half
        /\ mx <= DistrictX(d, z, offset) + half
        /\ my >= DistrictY(d, z, offset) - half
        /\ my <= DistrictY(d, z, offset) + half

\* variant: the first index whose square holds the position
HoveredFirstAt(ds, z, offset, mx, my) ==
    LET hits == {i \in 1..Len(ds) : InSquareAt(ds[i], z, offset, mx, my)}
    IN  IF hits = {} THEN Null
        ELSE (CHOOSE i \in hits : \A j \in hits : j >= i) - 1

\* l.307-322: hoveredDistrict, the last index whose square holds the position
HoveredAt(ds, z, offset, mx, my) ==
    LET hits == {i \in 1..Len(ds) : InSquareAt(ds[i], z, offset, mx, my)}
    IN  IF hits = {} THEN Null
        ELSE (CHOOSE i \in hits : \A j \in hits : j <= i) - 1

\* l.292-298: getRelativeMousePos, in sub-pixels
RelativeX(p) == (p.x - CanvasLeft) * SubPx
RelativeY(p) == (p.y - CanvasTop) * SubPx

\* l.312-319: the pointer at client position p lies in the square of d
InSquare(d, z, offset, p) ==
    InSquareAt(d, z, offset, RelativeX(p), RelativeY(p))

\* l.300-322: hoveredDistrict for the pointer at client position p
Hovered(ds, z, offset, p) ==
    HoveredAt(ds, z, offset, RelativeX(p), RelativeY(p))

\* l.378-385: the render reads districts[selectedDistrict].name, which
\* throws when the index is not in the list
RenderThrows(ds, sel) == sel # Null /\ sel >= Len(ds)

\* stale frame callbacks are counted up to this value
MaxStale == 1

\* cleanup of the draw effect (l.281-284): cancelAnimationFrame(animId)
\* removes the first callback if it is still queued; a callback drawMap
\* queued itself keeps running
DrawCleanup ==
    /\ animPending' = FALSE
    /\ loopPending' = FALSE
    /\ staleLoops' = IF loopPending /\ staleLoops < MaxStale
                     THEN staleLoops + 1 ELSE staleLoops
    /\ staleList' = IF loopPending /\ staleLoops = 0 THEN districts ELSE staleList

\* variant: the draw effect requests a frame whatever the list holds
DrawRerunUnguarded(ds) ==
    /\ animPending' = TRUE
    /\ loopPending' = FALSE
    /\ staleLoops' = IF loopPending /\ staleLoops < MaxStale
                     THEN staleLoops + 1 ELSE staleLoops
    /\ staleList' = IF loopPending /\ staleLoops = 0 THEN districts ELSE staleList

\* cleanup, then the draw effect again (l.217-285) with the new list
DrawRerun(ds) ==
    /\ animPending' = (Len(ds) > 0)
    /\ loopPending' = FALSE
    /\ staleLoops' = IF loopPending /\ staleLoops < MaxStale
                     THEN staleLoops + 1 ELSE staleLoops
    /\ staleList' = IF loopPending /\ staleLoops = 0 THEN districts ELSE staleList

\* no listener attached: the five listeners the component registers are
\* mousedown on the canvas, mousemove and mouseup on the window (l.205-207),
\* resize on the window (l.230) and mousemove on the canvas (l.329)
NoListeners ==
    [canvasMouseDown |-> 0, windowMouseMove |-> 0, windowMouseUp |-> 0,
     windowResize |-> 0, canvasMouseMove |-> 0]

\* l.205-207: the drag effect registers its three handlers
DragSetup(L) ==
    [L EXCEPT !.canvasMouseDown = @ + 1, !.windowMouseMove = @ + 1,
              !.windowMouseUp = @ + 1]

\* l.209-213: the cleanup of the drag effect removes the three handlers
DragCleanup(L) ==
    [L EXCEPT !.canvasMouseDown = @ - 1, !.windowMouseMove = @ - 1,
              !.windowMouseUp = @ - 1]

\* l.219 and l.230: the draw effect registers resizeCanvas unless the list
\* is empty
ResizeSetup(L, ds) ==
    IF Len(ds) > 0 THEN [L EXCEPT !.windowResize = @ + 1] ELSE L

\* variant: the cleanup of the draw effect leaves resizeCanvas attached
ResizeCleanupKept(L, ds) == L

\* l.281-284: the cleanup of the draw effect removes resizeCanvas; an effect
\* that returned at l.219 has no cleanup
ResizeCleanup(L, ds) ==
    IF Len(ds) > 0 THEN [L EXCEPT !.windowResize = @ - 1] ELSE L

\* l.290 and l.329: the hover effect registers its handler unless the list
\* is empty
HoverSetup(L, ds) ==
    IF Len(ds) > 0 THEN [L EXCEPT !.canvasMouseMove = @ + 1] ELSE L

\* l.330: the cleanup of the hover effect removes the handler
HoverCleanup(L, ds) ==
    IF Len(ds) > 0 THEN [L EXCEPT !.canvasMouseMove = @ - 1] ELSE L

\* the listeners after the first run of the three effects over list ds
FirstEffects(ds) == HoverSetup(ResizeSetup(DragSetup(NoListeners), ds), ds)

\* the listeners after a render that changed the dependencies of the drag
\* effect (drag), of the draw effect (draw) and of the hover effect (hover):
\* each of these is cleaned up over the old list and run over the new one
EffectsRerun(L, old, new, drag, draw, hover) ==
    LET a == IF drag THEN DragSetup(DragCleanup(L)) ELSE L
        b == IF draw THEN ResizeSetup(ResizeCleanup(a, old), new) ELSE a
    IN  IF hover THEN HoverSetup(HoverCleanup(b, old), new) ELSE b

\* the listeners after the component has left the tree: every effect is
\* cleaned up
EffectsCleanup(L, old) == HoverCleanup(ResizeCleanup(DragCleanup(L), old), old)

NoCall == [seed |-> ToNum(0), nearby |-> << >>]

\* the state before the component is mounted
Unmounted ==
    /\ mounted = FALSE
    /\ weather = [location |-> << >>, nearby |-> << >>]
    /\ zoom = ZoomDefault
    /\ districts = << >>
    /\ selectedDistrict = Null
    /\ isDragging = FALSE
    /\ mapOffset = Origin
    /\ dragStart = Origin
    /\ mouse = Origin
    /\ cursor = ""
    /\ animPending = FALSE
    /\ loopPending = FALSE
    /\ staleLoops = 0
    /\ staleList = << >>
    /\ lastFrame = "none"
    /\ listeners = NoListeners
    /\ down = << >>

\* after the first render and its effects: the list is generated (l.169-175)
\* and the first frame is requested (l.279)
InitOver(payloads) ==
    /\ hashCall = HashIdle
    /\ SearchIdle
    /\ gen = GenIdle
    /\ call = NoCall
    /\ prev = << >>
    /\ mounted = TRUE
    /\ weather \in payloads
    /\ zoom = ZoomDefault
    /\ districts = DistrictsFor(weather, << >>)
    /\ selectedDistrict = Null
    /\ isDragging = FALSE
    /\ mapOffset = Origin
    /\ dragStart = Origin
    /\ mouse = Origin
    /\ cursor = ""
    /\ animPending = (Len(districts) > 0)
    /\ loopPending = FALSE
    /\ staleLoops = 0
    /\ staleList = << >>
    /\ lastFrame = "none"
    /\ listeners = FirstEffects(districts)
    /\ down = << >>

Init == InitOver(Payloads)

InitNearby == InitOver(NearbyPayloads)

\* variant: dragStart is the pointer position, the pan is not subtracted
HandleMouseDownAbsolute(p) ==
    /\ mounted
    /\ OnCanvas(p)
    /\ isDragging' = TRUE
    /\ dragStart' = p
    /\ IF isDragging
       THEN UNCHANGED <<animPending, loopPending, staleLoops, staleList>>
       ELSE DrawRerun(districts)
    /\ down' = << [pos |-> p, pan |-> mapOffset] >>
    /\ listeners' = EffectsRerun(listeners, districts, districts,
                                 TRUE, ~isDragging, ~isDragging)
    /\ UNCHANGED <<mounted, weather, zoom, districts, selectedDistrict,
                   mapOffset, mouse, cursor, lastFrame, genVars, hashCall,
                   searchVars>>

\* l.182-188: mousedown on the canvas
HandleMouseDown(p) ==
    /\ mounted
    /\ OnCanvas(p)
    /\ isDragging' = TRUE
    /\ dragStart' = [x |-> p.x - mapOffset.x, y |-> p.y - mapOffset.y]
    /\ IF isDragging
       THEN UNCHANGED <<animPending, loopPending, staleLoops, staleList>>
       ELSE DrawRerun(districts)
    /\ down' = << [pos |-> p, pan |-> mapOffset] >>
    /\ listeners' = EffectsRerun(listeners, districts, districts,
                                 TRUE, ~isDragging, ~isDragging)
    /\ UNCHANGED <<mounted, weather, zoom, districts, selectedDistrict,
                   mapOffset, mouse, cursor, lastFrame, genVars, hashCall,
                   searchVars>>

\* variant: the canvas listener computes the hover while dragging too
HandleMouseMoveHovering(p) ==
    LET hover   == OnCanvas(p) /\ Len(districts) > 0
        hovered == Hovered(districts, zoom, mapOffset, p)
        offset  == [x |-> p.x - dragStart.x, y |-> p.y - dragStart.y]
    IN  /\ mounted
        /\ isDragging => InPanRange(offset)
        /\ mouse' = p
        /\ mapOffset' = IF isDragging THEN offset ELSE mapOffset
        /\ UNCHANGED <<mounted, weather, zoom, districts, isDragging,
                       dragStart, lastFrame, down, genVars, hashCall,
                   searchVars>>
        /\ DrawRerun(districts)
        /\ listeners' = EffectsRerun(listeners, districts, districts,
                                     isDragging, TRUE, isDragging)
        /\ selectedDistrict' = IF hover THEN hovered ELSE selectedDistrict
        /\ cursor' = IF hover
                     THEN (IF hovered # Null THEN "pointer"
                           ELSE IF isDragging THEN "grabbing" ELSE "grab")
                     ELSE cursor

\* mousemove: the listener on the canvas (l.300-327), when the pointer is over
\* the canvas and the hover effect has registered it, then the listener on
\* the window (l.190-199)
HandleMouseMove(p) ==
    LET hover   == OnCanvas(p) /\ Len(districts) > 0 /\ ~isDragging
        hovered == Hovered(districts, zoom, mapOffset, p)
        offset  == [x |-> p.x - dragStart.x, y |-> p.y - dragStart.y]
    IN  /\ mounted
        /\ isDragging => InPanRange(offset)
        /\ mouse' = p
        /\ mapOffset' = IF isDragging THEN offset ELSE mapOffset
        /\ UNCHANGED <<mounted, weather, zoom, districts, isDragging,
                       dragStart, lastFrame, down, genVars, hashCall,
                   searchVars>>
        /\ DrawRerun(districts)
        /\ listeners' = EffectsRerun(listeners, districts, districts,
                                     isDragging, TRUE, isDragging)
        /\ selectedDistrict' = IF hover THEN hovered ELSE selectedDistrict
        /\ cursor' = IF hover
                     THEN (IF hovered # Null THEN "pointer"
                           ELSE IF isDragging THEN "grabbing" ELSE "grab")
                     ELSE cursor

\* l.201-203: mouseup on the window
HandleMouseUp ==
    /\ mounted
    /\ isDragging' = FALSE
    /\ IF isDragging
       THEN DrawRerun(districts)
       ELSE UNCHANGED <<animPending, loopPending, staleLoops, staleList>>
    /\ listeners' = EffectsRerun(listeners, districts, districts,
                                 isDragging, isDragging, isDragging)
    /\ down' = << >>
    /\ UNCHANGED <<mounted, weather, zoom, districts, selectedDistrict,
                   mapOffset, dragStart, mouse, cursor, lastFrame, genVars, hashCall,
                   searchVars>>

\* variant: the "-" button subtracts two steps
ZoomOutTwice ==
    /\ mounted
    /\ ~(zoom <= ZoomMin)
    /\ zoom' = Max(ZoomMin, zoom - 2 * ZoomStep)
    /\ DrawRerun(districts)
    /\ listeners' = EffectsRerun(listeners, districts, districts,
                                 FALSE, TRUE, TRUE)
    /\ UNCHANGED <<mounted, weather, districts, selectedDistrict, isDragging,
                   mapOffset, dragStart, mouse, cursor, lastFrame, down, genVars, hashCall,
                   searchVars>>

\* variant: the "-" button subtracts the step with no lower clamp and is
\* never disabled
ZoomOutUnclamped ==
    /\ mounted
    /\ zoom' = zoom - ZoomStep
    /\ DrawRerun(districts)
    /\ listeners' = EffectsRerun(listeners, districts, districts,
                                 FALSE, TRUE, TRUE)
    /\ UNCHANGED <<mounted, weather, districts, selectedDistrict, isDragging,
                   mapOffset, dragStart, mouse, cursor, lastFrame, down, genVars, hashCall,
                   searchVars>>

\* l.344-350: the "-" button, disabled at the lower bound
ZoomOut ==
    /\ mounted
    /\ ~(zoom <= ZoomMin)
    /\ zoom' = Max(ZoomMin, zoom - ZoomStep)
    /\ DrawRerun(districts)
    /\ listeners' = EffectsRerun(listeners, districts, districts,
                                 FALSE, TRUE, TRUE)
    /\ UNCHANGED <<mounted, weather, districts, selectedDistrict, isDragging,
                   mapOffset, dragStart, mouse, cursor, lastFrame, down, genVars, hashCall,
                   searchVars>>

\* variant: the "+" button also recentres the view
ZoomInRecentred ==
    /\ mounted
    /\ ~(zoom >= ZoomMax)
    /\ zoom' = Min(ZoomMax, zoom + ZoomStep)
    /\ mapOffset' = Origin
    /\ DrawRerun(districts)
    /\ listeners' = EffectsRerun(listeners, districts, districts,
                                 TRUE, TRUE, TRUE)
    /\ UNCHANGED <<mounted, weather, districts, selectedDistrict, isDragging,
                   dragStart, mouse, cursor, lastFrame, down, genVars, hashCall,
                   searchVars>>

\* l.351-357: the "+" button, disabled at the upper bound
ZoomIn ==
    /\ mounted
    /\ ~(zoom >= ZoomMax)
    /\ zoom' = Min(ZoomMax, zoom + ZoomStep)
    /\ DrawRerun(districts)
    /\ listeners' = EffectsRerun(listeners, districts, districts,
                                 FALSE, TRUE, TRUE)
    /\ UNCHANGED <<mounted, weather, districts, selectedDistrict, isDragging,
                   mapOffset, dragStart, mouse, cursor, lastFrame, down, genVars, hashCall,
                   searchVars>>

\* variant: the view is recentred but the zoom is kept
ResetOffsetOnly ==
    /\ mounted
    /\ mapOffset' = Origin
    /\ DrawRerun(districts)
    /\ listeners' = EffectsRerun(listeners, districts, districts,
                                 TRUE, TRUE, TRUE)
    /\ UNCHANGED <<mounted, weather, zoom, districts, selectedDistrict, isDragging,
                   dragStart, mouse, cursor, lastFrame, down, genVars, hashCall,
                   searchVars>>

\* l.334-337 and l.358-363: the RESET button
resetMapView ==
    /\ mounted
    /\ mapOffset' = Origin
    /\ zoom' = ZoomDefault
    /\ DrawRerun(districts)
    /\ listeners' = EffectsRerun(listeners, districts, districts,
                                 TRUE, TRUE, TRUE)
    /\ UNCHANGED <<mounted, weather, districts, selectedDistrict, isDragging,
                   dragStart, mouse, cursor, lastFrame, down, genVars, hashCall,
                   searchVars>>

\* the parent passes a new payload: the generation effect (l.169-175) replaces
\* the list, the component renders again (l.339-393) and the draw effect is
\* run again; a render that throws takes the component out of the tree
SetWeather(w) ==
    LET ds == DistrictsFor(w, districts) IN
    /\ mounted
    /\ weather' = w
    /\ districts' = ds
    /\ IF RenderThrows(ds, selectedDistrict)
       THEN /\ mounted' = FALSE
            /\ DrawCleanup
            /\ listeners' = EffectsCleanup(listeners, districts)
       ELSE /\ mounted' = TRUE
            /\ DrawRerun(ds)
            /\ listeners' = EffectsRerun(listeners, districts, ds, FALSE,
                                         TRUE, Len(w.location) > 0)
    /\ UNCHANGED <<zoom, selectedDistrict, isDragging, mapOffset, dragStart,
                   mouse, cursor, lastFrame, down, genVars, hashCall,
                   searchVars>>

\* the view is unmounted: every effect is cleaned up and the state hooks
\* and the canvas element are discarded
Unmount ==
    /\ mounted
    /\ mounted' = FALSE
    /\ weather' = [location |-> << >>, nearby |-> << >>]
    /\ zoom' = ZoomDefault
    /\ districts' = << >>
    /\ selectedDistrict' = Null
    /\ isDragging' = FALSE
    /\ mapOffset' = Origin
    /\ dragStart' = Origin
    /\ mouse' = Origin
    /\ cursor' = ""
    /\ DrawCleanup
    /\ listeners' = EffectsCleanup(listeners, districts)
    /\ down' = << >>
    /\ UNCHANGED <<lastFrame, genVars, hashCall,
                   searchVars>>

\* the browser runs the queued callback of the running draw effect: drawMap
\* draws and queues itself again (l.232-277)
Frame ==
    /\ animPending \/ loopPending
    /\ animPending' = FALSE
    /\ loopPending' = TRUE
    /\ lastFrame' = "live"
    /\ UNCHANGED <<hookVars, staleLoops, staleList, listeners, down, genVars, hashCall,
                   searchVars>>

\* the browser runs a callback queued by the drawMap of a draw effect that
\* was cleaned up: it draws and queues itself again
StaleFrame ==
    /\ staleLoops > 0
    /\ lastFrame' = "stale"
    /\ UNCHANGED <<hookVars, animPending, loopPending, staleLoops, staleList,
                   listeners, down, genVars, hashCall,
                   searchVars>>

NextOver(pointers, payloads) ==
    \/ \E p \in pointers : HandleMouseDown(p)
    \/ \E p \in pointers : HandleMouseMove(p)
    \/ HandleMouseUp
    \/ ZoomOut
    \/ ZoomIn
    \/ resetMapView
    \/ \E w \in payloads : SetWeather(w)
    \/ Unmount
    \/ Frame
    \/ StaleFrame

Next == NextOver(Pointers, Payloads)

NextNearby == NextOver({PointerCentre}, NearbyPayloads)

\* the component, from its first render on
Spec == Init /\ [][Next]_vars

\* the component with payloads that differ in the nearby list only
SpecNearby == InitNearby /\ [][NextNearby]_vars

----------------------------------------------------------------------------
(* The generator as a process *)


\* ghost: calls entered since `prev` was kept are counted up to this value
MaxLaterCalls == 2

InitGen ==
    /\ hashCall = HashIdle
    /\ SearchIdle
    /\ gen = GenIdle
    /\ call = NoCall
    /\ prev = << >>
    /\ Unmounted

\* variant: the counter is a module-level variable set by the first call only
CallShared(seed, nearby) ==
    /\ UNCHANGED <<hashCall, compVars, searchVars>>
    /\ gen.pc \in {"idle", "done"}
    /\ gen' = GenEntry(IF gen.pc = "idle" THEN seed ELSE gen.seed, nearby)
    /\ call' = [seed |-> seed, nearby |-> nearby]
    /\ prev' = [k \in DOMAIN prev |->
                    [prev[k] EXCEPT !.calls = IF @ < MaxLaterCalls THEN @ + 1 ELSE @]]

\* generateCityDistricts(seed, nearby) is entered; `seed` is the call's own
\* parameter, so every call starts its counter from its argument
Call(seed, nearby) ==
    /\ UNCHANGED <<hashCall, compVars, searchVars>>
    /\ gen.pc \in {"idle", "done"}
    /\ gen' = GenEntry(seed, nearby)
    /\ call' = [seed |-> seed, nearby |-> nearby]
    /\ prev' = [k \in DOMAIN prev |->
                    [prev[k] EXCEPT !.calls = IF @ < MaxLaterCalls THEN @ + 1 ELSE @]]

Anchor ==
    /\ UNCHANGED <<hashCall, compVars, searchVars>>
    /\ gen.pc = "anchors"
    /\ gen' = AnchorStep(gen)
    /\ UNCHANGED <<call, prev>>

Pick ==
    /\ UNCHANGED <<hashCall, compVars, searchVars>>
    /\ gen.pc = "pick"
    /\ gen' = PickStep(gen)
    /\ UNCHANGED <<call, prev>>

Candidate ==
    /\ UNCHANGED <<hashCall, compVars, searchVars>>
    /\ gen.pc = "place"
    /\ gen' = CandidateStep(gen)
    /\ UNCHANGED <<call, prev>>

Push ==
    /\ UNCHANGED <<hashCall, compVars, searchVars>>
    /\ gen.pc = "push"
    /\ gen' = PushStep(gen)
    /\ UNCHANGED <<call, prev>>

\* the caller keeps the list a call returned, to compare later calls with it
Remember ==
    /\ UNCHANGED <<hashCall, compVars, searchVars>>
    /\ gen.pc = "done"
    /\ prev' = << [call |-> call, result |-> gen.districts, calls |-> 0] >>
    /\ UNCHANGED <<gen, call>>

GenNext(seeds) ==
    \/ \E seed \in seeds, nearby \in NearbyLists : Call(seed, nearby)
    \/ Anchor
    \/ Pick
    \/ Candidate
    \/ Push
    \/ Remember

NextGen == GenNext(HashSeeds)

NextGenNumber == GenNext(NumberSeeds)

\* the generator called with the seeds of the location names
SpecGen == InitGen /\ [][NextGen]_vars

\* the generator called with any seed of the model, 2^53 included
SpecGenNumber == InitGen /\ [][NextGenNumber]_vars

----------------------------------------------------------------------------
(* hashString as a process *)

\* longest string hashed, apart from the location names
MaxHashLen == 5

\* char codes the strings are made of: "A", "z" and the largest UTF-16 unit
HashCodes == {65, 122, 2 ^ 16 - 1}

HashStrings ==
    LocationNames \cup UNION {[1..n -> HashCodes] : n \in 0..MaxHashLen}

InitHash ==
    /\ hashCall = HashIdle
    /\ SearchIdle
    /\ gen = GenIdle
    /\ call = NoCall
    /\ prev = << >>
    /\ Unmounted

\* hashString(str) is entered
CallHash(str) ==
    /\ hashCall.pc \in {"idle", "done"}
    /\ hashCall' = HashEntry(str)
    /\ UNCHANGED <<genVars, compVars, searchVars>>

\* one iteration of the for loop
HashLoop ==
    /\ hashCall.pc = "loop"
    /\ hashCall' = HashBody(hashCall)
    /\ UNCHANGED <<genVars, compVars, searchVars>>

NextHash ==
    \/ \E str \in HashStrings : CallHash(str)
    \/ HashLoop

SpecHash == InitHash /\ [][NextHash]_vars

----------------------------------------------------------------------------
(* LocationSearch as a process *)

\* after the first render: the effect of l.102-105 has called
\* debouncedSearch('')
InitSearch ==
    /\ hashCall = HashIdle
    /\ gen = GenIdle
    /\ call = NoCall
    /\ prev = << >>
    /\ Unmounted
    /\ query = << >>
    /\ suggestions = << >>
    /\ isLoading = FALSE
    /\ debounced = << << >> >>
    /\ pending = {}

\* l.114 and l.102-105: the input changes; the cleanup of the effect cancels
\* the pending debounced call and the effect makes a new one
OnChange(q) ==
    /\ q # query
    /\ query' = q
    /\ debounced' = <<q>>
    /\ UNCHANGED <<suggestions, isLoading, pending, hashCall, genVars, compVars>>

\* l.100 and l.26-40: the debounce delay has passed, searchLocations runs up
\* to its first await
SearchLocations ==
    /\ debounced # << >>
    /\ debounced' = << >>
    /\ IF IsBlank(debounced[1])
       THEN /\ suggestions' = << >>
            /\ UNCHANGED <<isLoading, pending>>
       ELSE /\ isLoading' = TRUE
            /\ pending' = pending \cup {debounced[1]}
            /\ UNCHANGED suggestions
    /\ UNCHANGED <<query, hashCall, genVars, compVars>>

\* l.40-73 and l.95-97: the response to the request for q arrives and is
\* processed
Settle(q) ==
    /\ q \in pending
    /\ pending' = pending \ {q}
    /\ suggestions' = Results(q)
    /\ isLoading' = FALSE
    /\ UNCHANGED <<query, debounced, hashCall, genVars, compVars>>

\* l.92-97: the request for q fails
Reject(q) ==
    /\ q \in pending
    /\ pending' = pending \ {q}
    /\ suggestions' = << >>
    /\ isLoading' = FALSE
    /\ UNCHANGED <<query, debounced, hashCall, genVars, compVars>>

\* l.131-135: a suggestion is clicked; the new query starts a debounced
\* call if it differs from the old one (l.102-105)
Select ==
    /\ suggestions # << >>
    /\ query' = suggestions[1].display_name
    /\ suggestions' = << >>
    /\ debounced' = IF query' # query THEN <<query'>> ELSE debounced
    /\ UNCHANGED <<isLoading, pending, hashCall, genVars, compVars>>

NextSearch ==
    \/ \E q \in Typed : OnChange(q)
    \/ SearchLocations
    \/ \E q \in Queries : Settle(q)
    \/ \E q \in Queries : Reject(q)
    \/ Select

SpecSearch == InitSearch /\ [][NextSearch]_vars

----------------------------------------------------------------------------
(* Properties of hashString *)

Int32Max == 2 * (2 ^ 30 - 1) + 1

\* (31 * hash + code) wrapped into the signed 32-bit range; the exact value
\* is (31 * q + c) * 2^16 + l for hash = q * 2^16 + r, 31 * r + code =
\* c * 2^16 + l, and wrapping keeps the low 16 bits of 31 * q + c as a
\* signed number
Wrapped31(hash, code) ==
    LET q == hash \div Half
        r == hash % Half
        t == 31 * r + code
        k == 31 * q + (t \div Half)
        s == ((k + Half \div 2) % Half) - Half \div 2
    IN  s * Half + (t % Half)

\* the value the claim gives for the first n characters of str
RECURSIVE WrappedUpTo(_, _)
WrappedUpTo(str, n) ==
    IF n = 0 THEN 0 ELSE Wrapped31(WrappedUpTo(str, n - 1), str[n])

\* C23: after every iteration the hash is (31 * hash + code) wrapped into
\* the signed 32-bit range, applied from 0 over the characters read so far;
\* it lies in [-2^31, 2^31 - 1]; the empty string returns 0; the value
\* returned is the one value the function has for that string.
C23_HashValue ==
    hashCall.pc # "idle" =>
        /\ hashCall.hash = WrappedUpTo(hashCall.str, hashCall.i)
        /\ hashCall.hash >= -Int32Max - 1
        /\ hashCall.hash <= Int32Max
        /\ hashCall.pc = "done" =>
              /\ hashCall.i = Len(hashCall.str)
              /\ hashCall.str = << >> => hashCall.hash = 0
              /\ hashCall.hash = hashString(hashCall.str)

\* C23 witness: a string of several characters has been hashed and the sum
\* wrapped to a negative value.
C23_Witness ==
    /\ hashCall.pc = "done"
    /\ Len(hashCall.str) >= 4
    /\ hashCall.hash < 0

----------------------------------------------------------------------------
(* Properties of the generator *)

\* the retry budget of the placement loop named by the specification
placementRetryBudget == 200

Returned == gen.pc = "done"

C4_Separation ==
    Returned =>
        \A i, j \in 1..Len(gen.districts) :
            i # j => Dist2(gen.districts[i].x, gen.districts[i].y,
                           gen.districts[j].x, gen.districts[j].y) >= Milli * Milli

\* C5 as claimed: |anchors| <= count <= maxDistrictCount and
\* count >= minDistrictCount for every returned list.
C5_CountBounds ==
    Returned =>
        /\ Len(call.nearby) <= Len(gen.districts)
        /\ Len(gen.districts) <= maxDistrictCount
        /\ Len(gen.districts) >= minDistrictCount

\* C5 as amended: |anchors| <= count <= max(maxDistrictCount, |anchors|) and
\* count >= minDistrictCount: a longer anchor list is returned whole.
C5_CountBoundsAmended ==
    Returned =>
        /\ Len(call.nearby) <= Len(gen.districts)
        /\ Len(gen.districts) <= Max(maxDistrictCount, Len(call.nearby))
        /\ Len(gen.districts) >= minDistrictCount

\* C5 witness: a call has returned with more anchors than maxDistrictCount,
\* and the list holds exactly the anchors.
C5_Witness ==
    /\ Returned
    /\ Len(call.nearby) > maxDistrictCount
    /\ Len(gen.districts) = Len(call.nearby)

\* C6: a call that returns gives the list an earlier call with the same seed
\* and the same anchors gave, whatever calls ran in between.
C6_Deterministic ==
    (Returned /\ prev # << >> /\ prev[1].call = call)
        => gen.districts = prev[1].result

\* C6 witness: the same arguments return a second time, two calls after the
\* kept one, with synthetic districts in the list.
C6_Witness ==
    /\ Returned
    /\ prev # << >>
    /\ prev[1].call = call
    /\ prev[1].calls = MaxLaterCalls
    /\ Len(gen.districts) > Len(call.nearby)

\* C9: entries 1..N of a returned list are the N anchors in anchor order
\* (name and weather snapshot), and every later entry is synthetic.
C9_AnchorsFirst ==
    Returned =>
        \A i \in 1..Len(gen.districts) :
            IF i <= Len(call.nearby)
            THEN /\ gen.districts[i].name = call.nearby[i].name
                 /\ gen.districts[i].weather =
                        << [temp |-> call.nearby[i].temp,
                            condition |-> call.nearby[i].condition] >>
            ELSE gen.districts[i].weather = << >>

\* C9 witness: a returned list with several anchors followed by synthetic
\* districts.
C9_Witness ==
    /\ Returned
    /\ Len(call.nearby) >= 2
    /\ Len(gen.districts) > Len(call.nearby)

\* the least distance two districts of a list may have
minSeparation == 1 * Milli

\* C21: a call with an empty anchor list that the component can make (the
\* seed is the hash of a location name) raises no error on the way (every
\* index drawn is inside its table, every placement loop is left), and the
\* list it returns holds between minDistrictCount and maxDistrictCount
\* districts, none with a weather snapshot, every two at least
\* minSeparation apart.
C21_EmptyAnchors ==
    (gen.pc # "idle" /\ call.nearby = << >>) =>
        /\ gen.typeIndex \in 0..(Len(districtTypes) - 1)
        /\ gen.direction \in 0..(Len(directions) - 1)
        /\ gen.nameIndex \in 0..(Len(districtTypes[gen.typeIndex + 1].names) - 1)
        /\ gen.attempts < MaxAttempts
        /\ Returned =>
              /\ Len(gen.districts) >= minDistrictCount
              /\ Len(gen.districts) <= maxDistrictCount
              /\ \A i \in 1..Len(gen.districts) : gen.districts[i].weather = << >>
              /\ \A i, j \in 1..Len(gen.districts) :
                     i # j => Dist2(gen.districts[i].x, gen.districts[i].y,
                                    gen.districts[j].x, gen.districts[j].y)
                                  >= minSeparation * minSeparation

\* C21 witness: a call with no anchors has returned a list, and the last
\* district needed more than one candidate.
C21_Witness ==
    /\ Returned
    /\ call.nearby = << >>
    /\ Len(gen.districts) >= minDistrictCount
    /\ gen.attempts > 1

----------------------------------------------------------------------------
(* Properties of the component *)

\* C1: once a draw effect is cleaned up (unmount, or re-run of the effect),
\* no frame callback queued by it runs drawMap again.
C1_TornDownLoopStopped == lastFrame # "stale"

\* C2: the selection is none or an index of the current district list.
C2_SelectionInRange ==
    \/ selectedDistrict = Null
    \/ (0 <= selectedDistrict /\ selectedDistrict < Len(districts))

\* C7: zoom stays within [zoomMin, zoomMax] = [0.5, 3.0] after any sequence
\* of zoom and reset calls interleaved with drags and pointer moves.
C7_ZoomRange == zoom >= ZoomMin /\ zoom <= ZoomMax

\* C7 witness: the "-" button has taken zoom to the lower bound during a drag
\* that has panned the view.
C7_Witness ==
    /\ mounted
    /\ zoom = ZoomMin
    /\ isDragging
    /\ mapOffset # Origin

\* C8: a reset step, from any zoom and pan, idle or dragging, ends with
\* zoom 1 and pan (0,0) and the same district list.
C8_Reset ==
    [][resetMapView =>
          /\ zoom' = ZoomDefault
          /\ mapOffset' = Origin
          /\ districts' = districts]_vars

\* C8 witness: RESET has been pressed during a drag that began in a panned
\* view.  With the pointer where the button went down a drag leaves the pan
\* it started from; only the reset puts it at (0,0).
C8_Witness ==
    /\ isDragging
    /\ down # << >>
    /\ down[1].pan # Origin
    /\ mouse = down[1].pos
    /\ mapOffset = Origin
    /\ zoom = ZoomDefault
    /\ Len(districts) > 0

\* C10: a mousedown while idle starts the drag with dragStart = pointer -
\* pan; every move of the drag sets pan = pointer - dragStart, which is the
\* pan at the mousedown plus the displacement of the pointer since then.
C10_DragFollowsPointer ==
    [][\A p \in Pointers :
          /\ (~isDragging /\ HandleMouseDown(p)) =>
                /\ isDragging'
                /\ dragStart' = [x |-> p.x - mapOffset.x, y |-> p.y - mapOffset.y]
                /\ mapOffset' = mapOffset
          /\ (isDragging /\ HandleMouseMove(p)) =>
                /\ isDragging'
                /\ mapOffset' = [x |-> p.x - dragStart.x, y |-> p.y - dragStart.y]
                /\ mapOffset' = [x |-> down[1].pan.x + p.x - down[1].pos.x,
                                 y |-> down[1].pan.y + p.y - down[1].pos.y]]_vars

\* C10 witness: a drag that began in a panned view has moved the pointer and
\* the pan by the same displacement.
C10_Witness ==
    /\ isDragging
    /\ down # << >>
    /\ down[1].pan # Origin
    /\ mouse # down[1].pos
    /\ mapOffset # Origin
    /\ mapOffset # down[1].pan
    /\ mapOffset = [x |-> down[1].pan.x + mouse.x - down[1].pos.x,
                    y |-> down[1].pan.y + mouse.y - down[1].pos.y]

\* C11: while dragging, a mouseup, or the pointer leaving the canvas, ends the
\* drag, and no pointer move changes the pan while idle.
C11_UpOrLeaveEndsDrag ==
    [][/\ (isDragging /\ HandleMouseUp) => ~isDragging'
       /\ \A p \in Pointers :
            /\ (isDragging /\ ~OnCanvas(p) /\ HandleMouseMove(p)) =>
                  (~isDragging' /\ mapOffset' = mapOffset)
            /\ (~isDragging /\ HandleMouseMove(p)) =>
                  mapOffset' = mapOffset]_vars

C13_CentreHitsItself ==
    mounted =>
        \A i \in 1..Len(districts) :
            HoveredAt(districts, zoom, mapOffset,
                      DistrictX(districts[i], zoom, mapOffset),
                      DistrictY(districts[i], zoom, mapOffset)) = i - 1

\* C14: once the handler has set it, the cursor of the canvas is "grabbing"
\* while dragging, "pointer" while a district is hovered and "grab" otherwise
\* (either of the first two when both apply).
C14_CursorIntent ==
    (mounted /\ cursor # "") =>
        /\ (isDragging /\ selectedDistrict = Null) => cursor = "grabbing"
        /\ (isDragging /\ selectedDistrict # Null) => cursor \in {"grabbing", "pointer"}
        /\ (~isDragging /\ selectedDistrict # Null) => cursor = "pointer"
        /\ (~isDragging /\ selectedDistrict = Null) => cursor = "grab"

\* C15: in a view that has been drawn, idle and with the pointer last seen
\* over the canvas, the selection is the hit test of that pointer position
\* against the current list under the current zoom and pan.
C15_SelectionFresh ==
    (mounted /\ loopPending /\ ~isDragging /\ OnCanvas(mouse)
        /\ Len(districts) > 0) =>
        selectedDistrict = Hovered(districts, zoom, mapOffset, mouse)

\* C16: a step that keeps the location name keeps the district list.
C16_RebuiltOnLocationChange ==
    [][(mounted /\ mounted' /\ weather'.location = weather.location) =>
          districts' = districts]_vars

\* C17: while the district list is empty no frame callback is queued and
\* nothing has been drawn.
C17_EmptyNoFrames ==
    (mounted /\ Len(districts) = 0) =>
        /\ ~animPending
        /\ ~loopPending
        /\ staleLoops = 0
        /\ lastFrame = "none"

\* C17 witness: the list is empty after pointer moves, a mousedown and zoom
\* clicks have been handled.
C17_Witness ==
    /\ mounted
    /\ Len(districts) = 0
    /\ isDragging
    /\ mouse # Origin
    /\ zoom # ZoomDefault
    /\ ~animPending

\* C18: at most one frame loop is live: the queued or self-queueing callback
\* of the running draw effect and the callbacks left by cleaned-up effects
\* number at most one.
C18_SingleLoop ==
    mounted =>
        (IF animPending \/ loopPending THEN 1 ELSE 0) + staleLoops <= 1

\* C19: a frame drawn by a callback that a cleaned-up draw effect left
\* behind uses a list generated for the current location, not the list of
\* the location shown before.
C19_FramesUseCurrentList ==
    [][(mounted /\ StaleFrame) =>
          \E w \in AllPayloads :
              /\ w.location = weather.location
              /\ staleList = Generated[w]]_vars

\* C20: no listener of an earlier run of an effect stays attached: while the
\* component is mounted exactly the listeners of the current run of each
\* effect are attached, at most one of each kind however many state changes
\* were handled, and none is attached once the component has left the tree.
C20_ListenersRemoved ==
    /\ \A k \in DOMAIN listeners : listeners[k] \in {0, 1}
    /\ mounted => listeners = FirstEffects(districts)
    /\ ~mounted => listeners = NoListeners

\* C20 witness: the component has left the tree after zoom clicks and a
\* hover re-ran its effects, and nothing is attached.
C20_Witness ==
    /\ ~mounted
    /\ zoom # ZoomDefault
    /\ selectedDistrict # Null
    /\ listeners = NoListeners

\* C22: the map surfaces no error to its host: whatever payloads, pointer
\* events and zoom clicks it is given, the component leaves the tree only
\* when the host unmounts it, never because rendering threw.
C22_NoErrorSurfaced ==
    [][(mounted /\ ~mounted') => Unmount]_vars

\* worldToScreen of the specification, in sub-pixels: (width / 2 + pan.x +
\* x * unitScale * zoom, height / 2 + pan.y + y * unitScale * zoom)
worldToScreen(x, y, z, pan) ==
    [x |-> (CanvasWidth \div 2 + pan.x) * SubPx + x * UnitScale * z,
     y |-> (CanvasHeight \div 2 + pan.y) * SubPx + y * UnitScale * z]

\* C25: for every zoom, pan and district the component reaches, drawMap,
\* the hover hit test and drawRoads put the district at the same screen
\* point, worldToScreen of its world position; at zoom 1 and pan (0, 0) on
\* the 400x300 canvas the world point (1, 0) is at (250, 150).
C25_OneTransform ==
    /\ mounted =>
         \A i \in 1..Len(districts) :
            LET d == districts[i]
                s == worldToScreen(d.x, d.y, zoom, mapOffset)
            IN  /\ DrawnX(d, zoom, mapOffset) = s.x
                /\ DrawnY(d, zoom, mapOffset) = s.y
                /\ DistrictX(d, zoom, mapOffset) = s.x
                /\ DistrictY(d, zoom, mapOffset) = s.y
                /\ RoadX(d, zoom, mapOffset) = s.x
                /\ RoadY(d, zoom, mapOffset) = s.y
    /\ LET d == [x |-> Milli, y |-> 0] IN
       /\ DrawnX(d, ZoomDefault, Origin) = 250 * SubPx
       /\ DrawnY(d, ZoomDefault, Origin) = 150 * SubPx
       /\ DistrictX(d, ZoomDefault, Origin) = 250 * SubPx
       /\ DistrictY(d, ZoomDefault, Origin) = 150 * SubPx
       /\ RoadX(d, ZoomDefault, Origin) = 250 * SubPx
       /\ RoadY(d, ZoomDefault, Origin) = 150 * SubPx

\* C25 witness: a frame has been drawn over a list in a view that is zoomed
\* and panned.
C25_Witness ==
    /\ mounted
    /\ Len(districts) > 0
    /\ zoom # ZoomDefault
    /\ mapOffset # Origin
    /\ loopPending

\* C26: while a drag is in progress no step changes the selected district,
\* so it is the one of the moment the drag started; a pointer move of the
\* drag sets the pan from the pointer and leaves the selection alone.
C26_HoverOnlyIdle ==
    [][/\ (isDragging /\ mounted') => selectedDistrict' = selectedDistrict
       /\ \A p \in Pointers :
             (isDragging /\ HandleMouseMove(p)) =>
                 /\ selectedDistrict' = selectedDistrict
                 /\ mapOffset' = [x |-> p.x - dragStart.x, y |-> p.y - dragStart.y]
      ]_vars

\* C26 witness: a drag has moved the pan while a district is selected and
\* the pointer, over the canvas, is not over that district any more.
C26_Witness ==
    /\ mounted
    /\ isDragging
    /\ selectedDistrict # Null
    /\ mapOffset # down[1].pan
    /\ OnCanvas(mouse)
    /\ Hovered(districts, zoom, mapOffset, mouse) # selectedDistrict

\* C27: a click on "+" or "-" changes the zoom and leaves the pan, the
\* district list and the selection as they were; the steps of a drag
\* (mousedown, the moves while dragging, mouseup) leave the zoom, the
\* district list and the selection as they were.
C27_Frames ==
    [][/\ (ZoomIn \/ ZoomOut) =>
             /\ zoom' # zoom
             /\ mapOffset' = mapOffset
             /\ districts' = districts
             /\ selectedDistrict' = selectedDistrict
       /\ \A p \in Pointers :
             (\/ (~isDragging /\ HandleMouseDown(p))
              \/ (isDragging /\ HandleMouseMove(p))
              \/ (isDragging /\ HandleMouseUp)) =>
                 /\ zoom' = zoom
                 /\ districts' = districts
                 /\ selectedDistrict' = selectedDistrict
                 /\ weather' = weather
      ]_vars

\* C27 witness: the view has been zoomed, a drag has ended with the view
\* panned, and a district of the list is selected.
C27_Witness ==
    /\ mounted
    /\ ~isDragging
    /\ zoom # ZoomDefault
    /\ mapOffset # Origin
    /\ selectedDistrict # Null
    /\ Len(districts) > 0

\* the value a click on "-" sets (l.345) and the value a click on "+" sets
\* (l.352), in quarters
ZoomOutValue(z) == Max(ZoomMin, z - ZoomStep)
ZoomInValue(z) == Min(ZoomMax, z + ZoomStep)

\* C28: before and after every step the zoom is a whole number of quarters
\* within the range;
\* a click on "+" from z <= zoomMax - zoomStep sets a zoom from which "-"
\* gives z again, a click on "-" from z >= zoomMin + zoomStep sets a zoom
\* from which "+" gives z again; at zoomMax no "+" step is taken and the
\* value "+" would set is zoomMax, at zoomMin no "-" step is taken and the
\* value "-" would set is zoomMin.
C28_ZoomRoundTrip ==
    [][/\ zoom \in ZoomMin..ZoomMax
       /\ zoom' \in ZoomMin..ZoomMax
       /\ ZoomIn =>
            /\ zoom' = ZoomInValue(zoom)
            /\ zoom <= ZoomMax - ZoomStep => ZoomOutValue(zoom') = zoom
       /\ ZoomOut =>
            /\ zoom' = ZoomOutValue(zoom)
            /\ zoom >= ZoomMin + ZoomStep => ZoomInValue(zoom') = zoom
       /\ zoom = ZoomMax => (~ZoomIn /\ ZoomInValue(zoom) = zoom)
       /\ zoom = ZoomMin => (~ZoomOut /\ ZoomOutValue(zoom) = zoom)
      ]_vars

\* C28 witness: the zoom is at its upper bound, reached by clicks on "+",
\* with a frame drawn there.
C28_Witness ==
    /\ mounted
    /\ zoom = ZoomMax
    /\ loopPending

\* a reset was made during the drag in progress: without one the pan of a
\* drag is the pan at its mousedown until the first move and the pointer
\* minus dragStart after it, and here it is (0, 0) while both are not
ResetDuringDrag ==
    /\ isDragging
    /\ mapOffset = Origin
    /\ down[1].pan # Origin
    /\ [x |-> mouse.x - dragStart.x, y |-> mouse.y - dragStart.y] # Origin

\* C29: after a reset made during a drag the pan stays (0, 0) until the
\* next mousedown: a pointer move of that same drag leaves it at (0, 0).
C29_ResetHolds ==
    [][\A p \in Pointers :
          (ResetDuringDrag /\ HandleMouseMove(p)) => mapOffset' = Origin]_vars

----------------------------------------------------------------------------
(* Properties of LocationSearch *)

\* C30: a response, or a failure, of a search for a text that is not the
\* current query (a later text was typed, or the input was cleared) leaves
\* the suggestion list as it is.
C30_LatestQueryOnly ==
    [][\A q \in Queries :
          (q # query /\ (Settle(q) \/ Reject(q))) => suggestions' = suggestions
      ]_vars

====
